---------------------------- MODULE Spec2Model ----------------------------
(***************************************************************************)
(* A state-machine model of scripts/task_performance.py: the interactive  *)
(* console utility that resolves an output path, lets the operator select *)
(* tasks, times each task, reads two integer counters, appends a record   *)
(* to an in-memory list and finally writes the list to a CSV file.        *)
(*                                                                         *)
(* A line of console input is a sequence of one-character strings.  Every *)
(* input() call is modelled as delivering one line chosen by the operator *)
(* (an interactive console: end-of-file on stdin is outside the model).   *)
(* A Python float produced by int / int is modelled by the exact rational *)
(* it approximates, kept in lowest terms.                                  *)
(***************************************************************************)
EXTENDS Integers, Sequences, FiniteSets, TLC

(***************************************************************************)
(* Bounds of the model.                                                    *)
(***************************************************************************)
\* Number of catalog entries (a prefix of the program's catalog) in use.
NTasks == 2
\* Cap on the number of records collected in one session.
MaxRecords == 2
\* Number of nested select_task frames the interpreter allows before it
\* raises RecursionError (CPython: sys.getrecursionlimit(), 1000 by default).
RecursionLimit == 3
\* The largest magnitude a float holds (about 1.8e308 in CPython), scaled
\* down: int / int raises OverflowError for a quotient beyond it.
FloatMax == 100

(***************************************************************************)
(* Program constants.                                                      *)
(***************************************************************************)
\* main: task_duration_seconds = 5
task_duration_seconds == 5

\* The duration the docstring, the prompt and the comment on the assignment
\* of task_duration_seconds all state: 2 minutes.
DocumentedDuration == 120

\* main: the task catalog.
Catalog ==
    << "Reach", "Reach with Obstacle", "Dual Arm Reach",
       "Dual Arm Reach with Obstacle", "Needle Pick", "Needle Handover",
       "Peg Pick", "Peg Transfer", "Peg Board Pick and Place",
       "Needle through Ring" >>

tasks == SubSeq(Catalog, 1, NTasks)

\* main: the CSV header fields.
fieldnames ==
    << "Task", "Total Success", "Total attempt", "Success Rate",
       "Task Duration (secs)" >>

\* Python's None (a value no task name, line or number equals).
None == "<None>"

(***************************************************************************)
(* Text: str.strip, str.lower, str.endswith and int(str).                  *)
(***************************************************************************)
Whitespace == {" ", "\t"}

Digits == {"0", "1", "2", "3", "4", "5", "6", "7", "8", "9"}

DigitVal(c) ==
    CASE c = "0" -> 0 [] c = "1" -> 1 [] c = "2" -> 2 [] c = "3" -> 3
      [] c = "4" -> 4 [] c = "5" -> 5 [] c = "6" -> 6 [] c = "7" -> 7
      [] c = "8" -> 8 [] c = "9" -> 9

\* str.lower on one character.
LowerChar(c) ==
    CASE c = "E" -> "e" [] c = "X" -> "x" [] c = "I" -> "i" [] c = "T" -> "t"
      [] c = "C" -> "c" [] c = "S" -> "s" [] c = "V" -> "v" [] c = "F" -> "f"
      [] c = "O" -> "o"
      [] OTHER -> c

Lower(s) == [i \in 1..Len(s) |-> LowerChar(s[i])]

RECURSIVE LStrip(_)
LStrip(s) ==
    IF s # <<>> /\ Head(s) \in Whitespace THEN LStrip(Tail(s)) ELSE s

RECURSIVE RStrip(_)
RStrip(s) ==
    IF s # <<>> /\ s[Len(s)] \in Whitespace
    THEN RStrip(SubSeq(s, 1, Len(s) - 1))
    ELSE s

\* str.strip()
Strip(s) == RStrip(LStrip(s))

\* str.endswith(suffix)
EndsWith(s, suffix) ==
    /\ Len(s) >= Len(suffix)
    /\ SubSeq(s, Len(s) - Len(suffix) + 1, Len(s)) = suffix

\* The value of a digit string with its underscores dropped.
RECURSIVE DigitsValue(_, _)
DigitsValue(s, acc) ==
    IF s = <<>> THEN acc
    ELSE IF Head(s) = "_" THEN DigitsValue(Tail(s), acc)
    ELSE DigitsValue(Tail(s), 10 * acc + DigitVal(Head(s)))

\* int(str): surrounding whitespace is ignored, then an optional sign, then
\* digits, single underscores allowed between digits.  ok = FALSE stands for
\* ValueError.
IntLiteral(s) ==
    LET t    == Strip(s)
        sgn  == IF t # <<>> /\ Head(t) \in {"+", "-"} THEN Head(t) ELSE ""
        body == IF sgn = "" THEN t ELSE Tail(t)
        ok   == /\ body # <<>>
                /\ \A i \in 1..Len(body) : body[i] \in Digits \cup {"_"}
                /\ body[1] \in Digits
                /\ body[Len(body)] \in Digits
                /\ \A i \in 1..(Len(body) - 1) :
                        ~(body[i] = "_" /\ body[i + 1] = "_")
    IN  IF ok
        THEN [ok  |-> TRUE,
              val |-> IF sgn = "-" THEN 0 - DigitsValue(body, 0)
                                   ELSE DigitsValue(body, 0)]
        ELSE [ok |-> FALSE, val |-> 0]


(***************************************************************************)
(* Console input offered by the operator at each prompt.                   *)
(***************************************************************************)
DigitStr == << "0", "1", "2", "3", "4", "5", "6", "7", "8", "9" >>

\* The decimal numeral of k, 0 <= k <= 99, as a line.
Numeral(k) ==
    IF k < 10 THEN << DigitStr[k + 1] >>
    ELSE << DigitStr[(k \div 10) + 1], DigitStr[(k % 10) + 1] >>

\* Lines typed at the task-id prompt of select_task: every id from 0 to
\* N + 1, the exit word in two spellings, and lines that are no task id.
SelectLines ==
    { Numeral(k) : k \in 0..(Len(tasks) + 1) }
    \cup { << "e", "x", "i", "t" >>,
           << " ", "E", "x", "I", "T", " " >>,
           << " ", "+", "1", " " >>,
           << "-", "1" >>,
           << "1", ".", "0" >>,
           << "a" >>,
           << >> }

\* Lines typed at "Press Enter to start ...": the line is discarded.
EnterLines == { << >>, << "g", "o" >> }

\* Lines typed at the "total number of successes" prompt.
SuccessLines ==
    { << "2" >>, << " ", "+", "2", " " >>, << "-", "1" >>,
      << "9", "9", "9" >>, << "2", ".", "5" >>, << >> }

\* Lines typed at the "total number of attempts" prompt.
AttemptLines ==
    { << "4" >>, << "0" >>, << "-", "1" >>, << "0", "_", "4" >>,
      << "f", "o", "u", "r" >>, << "4", "_" >> }

\* Lines typed at the codename prompt of prepare_csv_filepath in a whole
\* run (NameSpec, below, goes through every short codename).
FileNameLines ==
    { << "f" >>,
      << " ", "f", " " >>,
      << "f", ".", "c", "s", "v" >> }

(***************************************************************************)
(* The pure parts of the program.                                          *)
(***************************************************************************)
RECURSIVE GCD(_, _)
GCD(a, b) == IF b = 0 THEN a ELSE GCD(b, a % b)

Abs(x) == IF x < 0 THEN 0 - x ELSE x

\* a / b for integers a and b # 0: the rational a/b in lowest terms with a
\* positive denominator.
TrueDiv(a, b) ==
    LET g == GCD(Abs(a), Abs(b))
        s == IF b < 0 THEN 0 - 1 ELSE 1
    IN  [num |-> (s * a) \div g, den |-> (s * b) \div g]

\* a / b raises OverflowError: the quotient is too large for a float.
division_overflows(a, b) == Abs(a) > FloatMax * Abs(b)

\* The integer 0 main stores as the rate when no division is performed.
ZeroRate == [num |-> 0, den |-> 1]

\* The rate with the operands of the division exchanged.
success_rate_swapped(total_success_, total_attempt_) ==
    IF total_attempt_ > 0
    THEN TrueDiv(total_attempt_, total_success_)
    ELSE ZeroRate

\* main: the success-rate computation.
success_rate_of(total_success_, total_attempt_) ==
    IF total_attempt_ > 0
    THEN TrueDiv(total_success_, total_attempt_)
    ELSE ZeroRate

\* main, lines 142-143: the division is performed and raises.
division_raises(total_success_, total_attempt_) ==
    total_attempt_ > 0 /\ division_overflows(total_success_, total_attempt_)

\* get_integer_input returning abs(int(...)).
get_integer_input_abs(l) ==
    LET p == IntLiteral(l)
    IN  [returned |-> p.ok, value |-> Abs(p.val)]

\* get_integer_input accepting digit strings only (no sign).
get_integer_input_unsigned(l) ==
    LET p == IntLiteral(l)
    IN  [returned |-> p.ok /\ p.val >= 0, value |-> p.val]

\* get_integer_input on one line: int(input(prompt)) either returns the value
\* or raises ValueError, which the loop catches before prompting again.
get_integer_input(l) ==
    LET p == IntLiteral(l)
    IN  [returned |-> p.ok, value |-> p.val]

ExitWord == << "e", "x", "i", "t" >>

\* select_task returning None for an id out of range instead of retrying.
select_task_range_ends(l) ==
    LET selection == Strip(l)
        p == IntLiteral(selection)
    IN  IF Lower(selection) = ExitWord
        THEN [kind |-> "exit", task |-> None]
        ELSE IF p.ok
             THEN IF 1 <= p.val /\ p.val <= Len(tasks)
                  THEN [kind |-> "task", task |-> tasks[p.val]]
                  ELSE [kind |-> "exit", task |-> None]
             ELSE [kind |-> "value", task |-> None]

\* select_task on one line: "exit" for the end signal, "task" for a catalog
\* entry, "range" and "value" for the two rejections.
select_task(l) ==
    LET selection == Strip(l)
        p == IntLiteral(selection)
    IN  IF Lower(selection) = ExitWord
        THEN [kind |-> "exit", task |-> None]
        ELSE IF p.ok
             THEN IF 1 <= p.val /\ p.val <= Len(tasks)
                  THEN [kind |-> "task", task |-> tasks[p.val]]
                  ELSE [kind |-> "range", task |-> None]
             ELSE [kind |-> "value", task |-> None]

\* The normalisation with the suffix test made on the name as typed, without
\* lower().
csv_filename_case_sensitive(l) ==
    LET name == Strip(l)
    IN  IF ~EndsWith(name, << ".", "c", "s", "v" >>)
        THEN name \o << ".", "c", "s", "v" >>
        ELSE name

\* prepare_csv_filepath: the file-name normalisation.
csv_filename_of(l) ==
    LET name == Strip(l)
    IN  IF ~EndsWith(Lower(name), << ".", "c", "s", "v" >>)
        THEN name \o << ".", "c", "s", "v" >>
        ELSE name

\* prepare_csv_filepath: <parent of cwd>/data/<csv_filename>.
csv_filepath_of(l) ==
    [dir |-> << "<parent>", "data" >>, name |-> csv_filename_of(l)]

\* main: the record appended for one task.
TaskRecord(task, s, a, d) ==
    [Task |-> task, TotalSuccess |-> s, TotalAttempt |-> a,
     SuccessRate |-> success_rate_of(s, a), TaskDuration |-> d]

\* data = [record] in place of data.append(record).
data_overwrite(d, rec) == << rec >>

\* data.insert(0, record) in place of data.append(record).
data_prepend(d, rec) == << rec >> \o d

\* main: data.append(record).
data_append(d, rec) == Append(d, rec)

\* csv.DictWriter: the cell of a record under a header field.
FieldValue(rec, name) ==
    CASE name = "Task" -> rec.Task
      [] name = "Total Success" -> rec.TotalSuccess
      [] name = "Total attempt" -> rec.TotalAttempt
      [] name = "Success Rate" -> rec.SuccessRate
      [] name = "Task Duration (secs)" -> rec.TaskDuration

\* csv.DictWriter: a record's row, its cells in header order.
CsvRow(rec) == [i \in 1..Len(fieldnames) |-> FieldValue(rec, fieldnames[i])]

\* writerows(data) with the call of writeheader() left out.
CsvContentNoHeader(records) ==
    [i \in 1..Len(records) |-> CsvRow(records[i])]

\* writeheader() followed by writerows(data).
CsvContent(records) ==
    << fieldnames >> \o [i \in 1..Len(records) |-> CsvRow(records[i])]

\* An "except ValueError" clause, as the other handlers of the file have.
main_except_value_error(e) == e = "ValueError"

\* The "except Exception" clause around the final write.
main_except(e) == e \in {"OSError", "ValueError", "RecursionError"}

(***************************************************************************)
(* The state of a run.                                                     *)
(***************************************************************************)
VARIABLES
    pc,              \* where main is: the prompt it waits at, or how it ended
    line,            \* the line the last input() call returned
    out,             \* the last message print() wrote
    csv_filepath,    \* main: csv_filepath
    selected_task,   \* main: selected_task
    elapsed,         \* start_timer: the loop variable (Unbound outside the loop)
    duration,        \* start_timer: its argument
    total_success,   \* main: total_success
    total_attempt,   \* main: total_attempt
    data,            \* main: data
    file,            \* the file at csv_filepath
    exc,             \* the exception that ended the run, if any
    write_result,    \* how the final write ended
    rejected,        \* lines the pending prompt call has rejected so far
    selections       \* history: the tasks select_task has returned to main

vars ==
    << pc, line, out, csv_filepath, selected_task, elapsed, duration,
       total_success, total_attempt, data, file, exc, write_result,
       rejected, selections >>

\* Cap on the lines one get_integer_input call is offered that it rejects.
MaxRetries == 2

\* The select_task frames on the call stack: the first call and one more
\* for every line rejected so far.
depth == IF pc = "select" THEN rejected + 1 ELSE 0

\* The loop variable of start_timer before its first assignment.
Unbound == 0 - 1

NoFile == [exists |-> FALSE, rows |-> << >>]

\* A file left at the path by an earlier run.
OldFile == [exists |-> TRUE, rows |-> << << "old" >> >>]

Init ==
    /\ pc = "filename"
    /\ line = None
    /\ out = None
    /\ csv_filepath = None
    /\ selected_task = None
    /\ elapsed = Unbound
    /\ duration = None
    /\ total_success = None
    /\ total_attempt = None
    /\ data = << >>
    /\ file \in {NoFile, OldFile}
    /\ exc = None
    /\ write_result = None
    /\ rejected = 0
    /\ selections = << >>

(***************************************************************************)
(* main, line 108: prepare_csv_filepath().  os.makedirs either succeeds or *)
(* raises OSError; no handler encloses the call.                           *)
(***************************************************************************)
PrepareCsvFilepathFrom(names) ==
    /\ pc = "filename"
    /\ \E l \in names, mk \in {"ok", "OSError"} :
          /\ line' = l
          /\ IF mk = "ok"
             THEN /\ csv_filepath' = csv_filepath_of(l)
                  /\ out' = "Performance Data Collection for Tasks"
                  /\ pc' = "select"
                  /\ exc' = exc
             ELSE /\ csv_filepath' = csv_filepath
                  /\ out' = out
                  /\ pc' = "crashed"
                  /\ exc' = mk
    /\ rejected' = 0
    /\ UNCHANGED << selected_task, elapsed, duration, total_success,
                    total_attempt, data, file, write_result, selections >>

PrepareCsvFilepath == PrepareCsvFilepathFrom(FileNameLines)

(***************************************************************************)
(* prepare_csv_filepath alone, on every codename of at most MaxNameLen     *)
(* characters drawn from NameChars.                                        *)
(***************************************************************************)
\* Longest codename typed.
MaxNameLen == 5

NameChars == {"f", ".", "c", "s", "v", "C", "S", "V", " "}

AllNames == UNION { [1..n -> NameChars] : n \in 0..MaxNameLen }

NameInit == Init /\ file = NoFile

NameNext == PrepareCsvFilepathFrom(AllNames)

NameSpec == NameInit /\ [][NameNext]_vars

(***************************************************************************)
(* select_task: one line read at the task-id prompt.  A rejected line is   *)
(* answered by a recursive call, which needs one more frame.               *)
(***************************************************************************)
SelectTask ==
    /\ pc = "select"
    /\ \E l \in SelectLines :
          LET r == select_task(l) IN
          /\ line' = l
          /\ CASE r.kind = "exit" ->
                    /\ selected_task' = None
                    /\ pc' = "write"
                    /\ rejected' = 0
                    /\ UNCHANGED << out, exc, selections >>
               [] r.kind = "task" ->
                    /\ Len(data) < MaxRecords
                    /\ selected_task' = r.task
                    /\ selections' = Append(selections, r.task)
                    /\ out' = "Task: "
                    /\ pc' = "enter"
                    /\ rejected' = 0
                    /\ exc' = exc
               [] OTHER ->
                    /\ out' = IF r.kind = "range"
                              THEN "Invalid task id. Please enter a number between 1 and N."
                              ELSE "Invalid input. Please enter a valid task id or 'exit'."
                    /\ IF depth < RecursionLimit
                       THEN /\ rejected' = rejected + 1
                            /\ UNCHANGED << pc, exc >>
                       ELSE /\ pc' = "crashed"
                            /\ exc' = "RecursionError"
                            /\ rejected' = rejected
                    /\ UNCHANGED << selected_task, selections >>
    /\ UNCHANGED << csv_filepath, elapsed, duration, total_success,
                    total_attempt, data, file, write_result >>

\* main asking for the counters right after Enter, start_timer not called.
PressEnterNoTimer ==
    /\ pc = "enter"
    /\ \E l \in EnterLines : line' = l
    /\ pc' = "success"
    /\ UNCHANGED << out, csv_filepath, selected_task, elapsed, duration,
                    total_success, total_attempt, data, file, exc,
                    write_result, rejected, selections >>

(***************************************************************************)
(* main, line 136, and the entry of start_timer.                           *)
(***************************************************************************)
PressEnter ==
    /\ pc = "enter"
    /\ \E l \in EnterLines : line' = l
    /\ duration' = task_duration_seconds
    /\ elapsed' = Unbound
    /\ out' = "Task timer started. Please perform the task."
    /\ pc' = "timer"
    /\ UNCHANGED << csv_filepath, selected_task, total_success, total_attempt,
                    data, file, exc, write_result, rejected, selections >>

\* The loop of start_timer counting from 1: range(1, duration + 1).
NextElapsedFromOne == IF elapsed = Unbound THEN 1 ELSE elapsed + 1

\* The value the loop variable of start_timer takes next.
NextElapsed == IF elapsed = Unbound THEN 0 ELSE elapsed + 1

\* start_timer: one pass of the loop, a display and a sleep of one second.
TimerTick ==
    /\ pc = "timer"
    /\ NextElapsed < duration + 1
    /\ elapsed' = NextElapsed
    /\ out' = "Elapsed time"
    /\ UNCHANGED << pc, line, csv_filepath, selected_task, duration,
                    total_success, total_attempt, data, file, exc,
                    write_result, rejected, selections >>

\* start_timer: the loop is exhausted; the last message and the return.
TimerReturn ==
    /\ pc = "timer"
    /\ ~(NextElapsed < duration + 1)
    /\ out' = "Time is up! Please proceed with the input."
    /\ elapsed' = Unbound
    /\ duration' = None
    /\ pc' = "success"
    /\ UNCHANGED << line, csv_filepath, selected_task, total_success,
                    total_attempt, data, file, exc, write_result, rejected,
                    selections >>

(***************************************************************************)
(* main, line 139: total_success = get_integer_input(...), one line read.  *)
(***************************************************************************)
GetTotalSuccess ==
    /\ pc = "success"
    /\ \E l \in SuccessLines :
          LET r == get_integer_input(l) IN
          /\ line' = l
          /\ IF r.returned
             THEN /\ total_success' = r.value
                  /\ pc' = "attempt"
                  /\ rejected' = 0
                  /\ out' = out
             ELSE /\ rejected < MaxRetries
                  /\ rejected' = rejected + 1
                  /\ out' = "Invalid input. Please enter an integer value."
                  /\ UNCHANGED << pc, total_success >>
    /\ UNCHANGED << csv_filepath, selected_task, elapsed, duration,
                    total_attempt, data, file, exc, write_result, selections >>

\* The attempts prompt of a main that rewrites the file after every append.
GetTotalAttemptPersisting ==
    /\ pc = "attempt"
    /\ \E l \in AttemptLines :
          LET r == get_integer_input(l)
              appended == data_append(data,
                              TaskRecord(selected_task, total_success,
                                         r.value, task_duration_seconds))
          IN
          /\ line' = l
          /\ IF r.returned /\ division_raises(total_success, r.value)
             THEN /\ total_attempt' = r.value
                  /\ pc' = "crashed"
                  /\ exc' = "OverflowError"
                  /\ rejected' = 0
                  /\ UNCHANGED << out, data, file >>
             ELSE IF r.returned
             THEN /\ total_attempt' = r.value
                  /\ data' = appended
                  /\ file' = [exists |-> TRUE, rows |-> CsvContent(appended)]
                  /\ out' = ""
                  /\ pc' = "select"
                  /\ rejected' = 0
                  /\ exc' = exc
             ELSE /\ rejected < MaxRetries
                  /\ rejected' = rejected + 1
                  /\ out' = "Invalid input. Please enter an integer value."
                  /\ UNCHANGED << pc, total_attempt, data, file, exc >>
    /\ UNCHANGED << csv_filepath, selected_task, elapsed, duration,
                    total_success, write_result, selections >>

(***************************************************************************)
(* main, lines 140-157: total_attempt = get_integer_input(...), one line   *)
(* read; on a return the rate is computed and the record appended.  The    *)
(* division of line 143 is under no handler: its OverflowError ends main.  *)
(***************************************************************************)
GetTotalAttempt ==
    /\ pc = "attempt"
    /\ \E l \in AttemptLines :
          LET r == get_integer_input(l) IN
          /\ line' = l
          /\ IF r.returned /\ division_raises(total_success, r.value)
             THEN /\ total_attempt' = r.value
                  /\ pc' = "crashed"
                  /\ exc' = "OverflowError"
                  /\ rejected' = 0
                  /\ UNCHANGED << out, data >>
             ELSE IF r.returned
             THEN /\ total_attempt' = r.value
                  /\ data' = data_append(data,
                                TaskRecord(selected_task, total_success,
                                           r.value, task_duration_seconds))
                  /\ out' = ""
                  /\ pc' = "select"
                  /\ rejected' = 0
                  /\ exc' = exc
             ELSE /\ rejected < MaxRetries
                  /\ rejected' = rejected + 1
                  /\ out' = "Invalid input. Please enter an integer value."
                  /\ UNCHANGED << pc, total_attempt, data, exc >>
    /\ UNCHANGED << csv_filepath, selected_task, elapsed, duration,
                    total_success, file, write_result, selections >>

(***************************************************************************)
(* main, lines 168-175: the final write.  open() may raise; a write or the *)
(* close may raise after the file was truncated and some rows reached it.  *)
(***************************************************************************)
WriteCsv ==
    /\ pc = "write"
    /\ \E e \in {None, "OSError"}, opened \in BOOLEAN,
          k \in 0..Len(CsvContent(data)) :
          /\ e = None => (opened /\ k = Len(CsvContent(data)))
          /\ ~opened => k = 0
          /\ file' = IF opened
                     THEN [exists |-> TRUE,
                           rows |-> SubSeq(CsvContent(data), 1, k)]
                     ELSE file
          /\ IF e = None
             THEN /\ out' = "Data has been successfully saved to csv_filepath."
                  /\ write_result' = "ok"
                  /\ pc' = "done"
                  /\ exc' = exc
             ELSE IF main_except(e)
             THEN /\ out' = "An error occurred while writing to the CSV file:"
                  /\ write_result' = "failed"
                  /\ pc' = "done"
                  /\ exc' = exc
             ELSE /\ out' = out
                  /\ write_result' = "failed"
                  /\ pc' = "crashed"
                  /\ exc' = e
    /\ UNCHANGED << line, csv_filepath, selected_task, elapsed, duration,
                    total_success, total_attempt, data, rejected, selections >>

Next ==
    \/ PrepareCsvFilepath
    \/ SelectTask
    \/ PressEnter
    \/ TimerTick
    \/ TimerReturn
    \/ GetTotalSuccess
    \/ GetTotalAttempt
    \/ WriteCsv

Spec == Init /\ [][Next]_vars

(***************************************************************************)
(* Properties.                                                             *)
(***************************************************************************)
\* The task names of a list of records, in order.
TaskNames(records) == [i \in 1..Len(records) |-> records[i].Task]

\* The selection loop has ended.
LoopEnded == pc \in {"write", "done"}

\* A line that, trimmed, is the exit word in some casing.
IsExitLine(l) == Lower(Strip(l)) = << "e", "x", "i", "t" >>

\* A line that is an integer in [1, N].
IsTaskId(l) ==
    /\ ~IsExitLine(l)
    /\ IntLiteral(l).ok
    /\ IntLiteral(l).val \in 1..Len(tasks)

\* C1: a call of select_task returns according to the first line that is
\* the exit word or an integer in [1, N]: after a return to the task branch
\* the line read last is such an integer and the task is the catalog entry
\* at that position; after a return of None the line read last is the exit
\* word; a line the call has rejected is neither; and no number of rejected
\* lines ends the call in any other way than by such a return.
C1_SelectTaskReturnsFirstAccepted ==
    /\ pc = "enter" =>
          /\ IsTaskId(line)
          /\ selected_task = tasks[IntLiteral(line).val]
    /\ pc = "write" =>
          /\ IsExitLine(line)
          /\ selected_task = None
    /\ (pc = "select" /\ rejected > 0) =>
          (~IsExitLine(line) /\ ~IsTaskId(line))
    /\ exc # "RecursionError"

\* C2: when the end signal has been received the session list holds exactly
\* one record per task selection made, in selection order, each with the
\* name of the task selected (k selections of one task give k records), and
\* nothing is collected afterwards.
C2_OneRecordPerSelection ==
    LoopEnded =>
        /\ Len(data) = Len(selections)
        /\ \A i \in 1..Len(selections) : data[i].Task = selections[i]

\* C2 witness: task 1 selected twice, then exit: two records for task 1.
C2_Witness ==
    /\ pc = "write"
    /\ selections = << tasks[1], tasks[1] >>
    /\ Len(data) = 2
    /\ data[1].Task = tasks[1]
    /\ data[2].Task = tasks[1]

\* C3: in every record, an attempt count > 0 gives a rate equal to
\* successes / attempts and an attempt count of 0 gives the rate 0; the
\* counts of the record appended last are the integers entered.
C3_SuccessRate ==
    /\ \A i \in 1..Len(data) :
          LET r == data[i] IN
          /\ r.TotalAttempt > 0 =>
                /\ r.SuccessRate.den > 0
                /\ r.SuccessRate.num * r.TotalAttempt
                       = r.TotalSuccess * r.SuccessRate.den
          /\ r.TotalAttempt = 0 => r.SuccessRate.num = 0
    /\ (pc = "select" /\ rejected = 0 /\ data # << >>) =>
          /\ data[Len(data)].TotalSuccess = total_success
          /\ data[Len(data)].TotalAttempt = total_attempt
          /\ data[Len(data)].TotalAttempt = IntLiteral(line).val

\* C3 witness: one record with 2 successes in 4 attempts (rate 1/2), one
\* with 2 successes in 0 attempts (rate 0).
C3_Witness ==
    \E i, j \in 1..Len(data) :
        /\ data[i].TotalSuccess = 2 /\ data[i].TotalAttempt = 4
        /\ data[i].SuccessRate = [num |-> 1, den |-> 2]
        /\ data[j].TotalSuccess = 2 /\ data[j].TotalAttempt = 0
        /\ data[j].SuccessRate.num = 0

\* C4: after a write that succeeded the file is the fixed header row
\* followed by one row per record of the session, in insertion order (the
\* header alone when there is no record).
C4_FileIsHeaderPlusRows ==
    write_result = "ok" =>
        /\ file.exists
        /\ Len(file.rows) = Len(data) + 1
        /\ file.rows[1] = << "Task", "Total Success", "Total attempt",
                             "Success Rate", "Task Duration (secs)" >>
        /\ \A i \in 1..Len(data) :
              file.rows[i + 1] = << data[i].Task, data[i].TotalSuccess,
                                    data[i].TotalAttempt, data[i].SuccessRate,
                                    data[i].TaskDuration >>
        /\ TaskNames(data) = selections

\* C4 witness: a successful write of a session of two different tasks.
C4_Witness ==
    /\ write_result = "ok"
    /\ Len(data) = 2
    /\ data[1].Task # data[2].Task
    /\ Len(file.rows) = 3

\* C5: a failure of the final write is caught and reported, the run ends
\* normally, and nothing is attempted afterwards.
C5_WriteFailureIsCaught ==
    write_result = "failed" =>
        /\ pc = "done"
        /\ exc = None
        /\ out = "An error occurred while writing to the CSV file:"
        /\ ~ENABLED Next

\* C5 witness: a write that failed after the header and one of two rows.
C5_Witness ==
    /\ write_result = "failed"
    /\ pc = "done"
    /\ Len(data) = 2
    /\ file.exists
    /\ Len(file.rows) = 2

\* C6: every filesystem error, the failure to create the data directory
\* included, is caught at the final write and leaves the run ending
\* normally: a failed write ends in normal termination and no run is ended
\* by an OSError, in particular none before task collection starts.
C6_FilesystemErrorsAreCaught ==
    /\ write_result = "failed" => pc = "done"
    /\ pc = "crashed" => exc # "OSError"

\* The value get_integer_input is to return for a line, as a one-element
\* sequence, or the empty sequence for a line that is no integer.
ExpectedInteger(l) ==
    CASE l = << "2" >> -> << 2 >>
      [] l = << " ", "+", "2", " " >> -> << 2 >>
      [] l = << "-", "1" >> -> << 0 - 1 >>
      [] l = << "9", "9", "9" >> -> << 999 >>
      [] l = << "4" >> -> << 4 >>
      [] l = << "0" >> -> << 0 >>
      [] l = << "0", "_", "4" >> -> << 4 >>
      [] OTHER -> << >>

\* One step of a get_integer_input call that reads line l: a line that is
\* an integer ends the call with that value, any other line is answered by
\* the error message and the same prompt again, the value left unset.
IntegerPromptStep(l, returned, old, new) ==
    IF ExpectedInteger(l) # << >>
    THEN returned /\ new = ExpectedInteger(l)[1]
    ELSE /\ ~returned
         /\ new = old
         /\ out' = "Invalid input. Please enter an integer value."
         /\ pc' # "crashed"

\* C7: get_integer_input returns the integer value of the first line that
\* is an integer, negative values included; every other line is answered
\* by the error message and a new prompt, never by a return or an error.
C7_IntegerPrompt ==
    [][ /\ pc = "success" =>
              IntegerPromptStep(line', pc' # "success",
                                total_success, total_success')
        /\ pc = "attempt" =>
              IntegerPromptStep(line', pc' # "attempt",
                                total_attempt, total_attempt') ]_vars

\* C7 witness: the successes prompt returned -1 after rejecting a line.
C7_Witness ==
    /\ pc = "attempt"
    /\ line = << "-", "1" >>
    /\ total_success = 0 - 1
    /\ out = "Invalid input. Please enter an integer value."

\* C8: an input format error is always recovered by prompting again and
\* never surfaces as a failure of the program, however many invalid lines
\* follow one another: no run is ended by an exception raised while an
\* invalid line is handled.
C8_InputErrorsNeverFail ==
    pc = "crashed" => exc \notin {"RecursionError", "ValueError"}

\* C9: every timer runs for 120 seconds, and 120 is the duration stored in
\* every record.
C9_TimerIsTwoMinutes ==
    /\ pc = "timer" => duration = DocumentedDuration
    /\ \A i \in 1..Len(data) : data[i].TaskDuration = DocumentedDuration

\* C10 as stated: the run goes through the catalog once from top to bottom,
\* so the session ends with exactly one record per catalog task, in catalog
\* order.
C10_FixedListSession ==
    LoopEnded => TaskNames(data) = tasks

\* C10 as amended: main has the operator-driven policy only.  The session
\* ends when the operator enters the exit word, and only then, with the
\* records of the tasks selected, in selection order; it holds one record
\* per catalog task in catalog order exactly when the operator selected the
\* tasks 1..N in that order.  2 successes in 4 attempts give the rate 1/2,
\* and a written file has one line more than the session has records.
C10_OperatorDrivenSession ==
    LoopEnded =>
        /\ IsExitLine(line)
        /\ TaskNames(data) = selections
        /\ (TaskNames(data) = tasks) <=> (selections = tasks)
        /\ \A i \in 1..Len(data) :
              (data[i].TotalSuccess = 2 /\ data[i].TotalAttempt = 4) =>
                  data[i].SuccessRate = [num |-> 1, den |-> 2]
        /\ write_result = "ok" => Len(file.rows) = Len(data) + 1

\* C10 witness: the operator went through the catalog in order, entering
\* 2 successes in 4 attempts for every task, and the file was written.
C10_Witness ==
    /\ pc = "done"
    /\ write_result = "ok"
    /\ TaskNames(data) = tasks
    /\ \A i \in 1..Len(data) :
          /\ data[i].TotalSuccess = 2
          /\ data[i].TotalAttempt = 4
          /\ data[i].SuccessRate = [num |-> 1, den |-> 2]
    /\ Len(file.rows) = Len(tasks) + 1

\* C11: the session list is append-only: every step leaves it unchanged or
\* adds exactly one record at its end; no record in it is changed or
\* removed, neither while invalid input is retried nor by the final write.
C11_AppendOnly ==
    [][ \/ data' = data
        \/ /\ Len(data') = Len(data) + 1
           /\ SubSeq(data', 1, Len(data)) = data ]_vars

\* C11 witness: the list has grown to two different records and an invalid
\* selection is being retried.
C11_Witness ==
    /\ pc = "select"
    /\ rejected > 0
    /\ Len(data) = 2
    /\ data[1] # data[2]

\* C12: the output path is resolved once, before the first task selection;
\* the file is opened and written at most once, only after the selection
\* loop has ended with the end signal; no step taken while the program
\* waits for input or runs a timer touches the file, so nothing collected
\* is persisted before the end of the run.
C12_SingleWriteAtEnd ==
    /\ [](pc = "filename" => (selections = << >> /\ data = << >>))
    /\ []((pc # "filename" /\ exc # "OSError") =>
              csv_filepath.dir = << "<parent>", "data" >>)
    /\ [](pc = "write" => IsExitLine(line))
    /\ [](write_result = None => file \in {NoFile, OldFile})
    /\ [][ /\ pc' = "filename" => pc = "filename"
           /\ pc # "filename" => csv_filepath' = csv_filepath
           /\ pc # "write" => (file' = file /\ write_result' = write_result)
           /\ pc = "write" => (pc' = "done" /\ write_result' # None)
           /\ pc \notin {"done", "crashed"} ]_vars

\* C12 witness: two records are in memory, the program waits at the task
\* prompt, and the file still is what it was before the run.
C12_Witness ==
    /\ pc = "select"
    /\ Len(data) = 2
    /\ write_result = None
    /\ file = OldFile

\* C13: start_timer(duration) displays the elapsed values 0, 1, ...,
\* duration in increasing order, one display and one sleep per tick (so
\* duration + 1 ticks), then prints the "time is up" message once, after
\* the tick that displayed duration, and returns; while the timer runs no
\* step of the program does anything but the next tick or that return.
C13_TimerTicks ==
    [][ /\ (pc # "timer" /\ pc' = "timer") =>
              (elapsed' = Unbound /\ duration' = task_duration_seconds)
        /\ pc = "timer" =>
              \/ /\ pc' = "timer"
                 /\ elapsed = Unbound => elapsed' = 0
                 /\ elapsed # Unbound => elapsed' = elapsed + 1
                 /\ elapsed' <= duration
                 /\ duration' = duration
                 /\ out' = "Elapsed time"
              \/ /\ pc' = "success"
                 /\ elapsed = duration
                 /\ out' = "Time is up! Please proceed with the input."
        /\ (out' = "Time is up! Please proceed with the input." /\ out' # out)
              => (pc = "timer" /\ pc' = "success") ]_vars

\* C13 witness: the last tick of a timer, the display showing duration.
C13_Witness ==
    /\ pc = "timer"
    /\ elapsed = duration
    /\ elapsed = task_duration_seconds
    /\ out = "Elapsed time"

\* C14 as stated: in every record of the session total_success and
\* total_attempt are non-negative integers.
C14_CountsAreNonNegative ==
    \A i \in 1..Len(data) :
        /\ data[i].TotalSuccess \in Nat
        /\ data[i].TotalAttempt \in Nat

\* C14 as amended: in every record of the session total_success and
\* total_attempt are integers, namely the integers the operator entered,
\* whatever their sign: no range validation is performed.
C14_CountsAreEnteredIntegers ==
    /\ \A i \in 1..Len(data) :
          /\ data[i].TotalSuccess \in Int
          /\ data[i].TotalAttempt \in Int
    /\ (pc = "attempt" /\ rejected = 0 /\ ExpectedInteger(line) # << >>) =>
          total_success = ExpectedInteger(line)[1]
    /\ (pc = "select" /\ rejected = 0 /\ data # << >>) =>
          /\ ExpectedInteger(line) # << >>
          /\ data[Len(data)].TotalAttempt = ExpectedInteger(line)[1]
          /\ data[Len(data)].TotalSuccess = total_success

\* C14 witness: a record with -1 successes in -1 attempts.
C14_Witness ==
    \E i \in 1..Len(data) :
        /\ data[i].TotalSuccess = 0 - 1
        /\ data[i].TotalAttempt = 0 - 1

\* C15: prepare_csv_filepath normalises the file name so that it ends in
\* ".csv" case-insensitively: a name that does not end in it gets ".csv"
\* appended ("f" gives "f.csv"), a name that does is kept as typed, casing
\* included ("f.csv" gives "f.csv", "F.CSV" gives "F.CSV"), so the extension
\* is never doubled, and normalising the result again changes nothing.
C15_CsvNameNormalised ==
    pc = "select" =>
        LET n   == csv_filepath.name
            t   == Strip(line)
            had == /\ Len(t) >= 4
                   /\ Lower(SubSeq(t, Len(t) - 3, Len(t)))
                          = << ".", "c", "s", "v" >>
        IN  /\ Len(n) >= 4
            /\ Lower(SubSeq(n, Len(n) - 3, Len(n))) = << ".", "c", "s", "v" >>
            /\ had => n = t
            /\ ~had => n = t \o << ".", "c", "s", "v" >>
            /\ csv_filename_of(n) = n
            /\ line = << "f" >> => n = << "f", ".", "c", "s", "v" >>
            /\ line = << "f", ".", "c", "s", "v" >>
                   => n = << "f", ".", "c", "s", "v" >>
            /\ line = << "F", ".", "C", "S", "V" >>
                   => n = << "F", ".", "C", "S", "V" >>

\* C15 witness: a name typed with an upper-case extension is kept as typed.
C15_Witness ==
    /\ pc = "select"
    /\ line = << "f", ".", "C", "S", "V" >>
    /\ csv_filepath.name = << "f", ".", "C", "S", "V" >>

\* C16: for every task the steps come in one fixed order, none skipped:
\* the task is selected, the operator is prompted to begin, the timer runs
\* to completion with the configured duration, the successes are prompted
\* until an integer is entered, then the attempts, then the rate is computed
\* and the record appended; the counters are never asked for before the
\* timer has finished, and the next selection never starts before the
\* record is appended.
C16_StepOrder ==
    [][ /\ pc = "select" => pc' \in {"select", "enter", "write", "crashed"}
        /\ pc' = "enter" =>
              /\ pc = "select"
              /\ \E k \in 1..Len(tasks) : selected_task' = tasks[k]
        /\ pc = "enter" =>
              /\ pc' = "timer"
              /\ duration' = task_duration_seconds
              /\ elapsed' = Unbound
              /\ selected_task' = selected_task
        /\ pc = "timer" =>
              \/ pc' = "timer" /\ elapsed' # elapsed
              \/ pc' = "success" /\ elapsed = duration
        /\ (pc' = "success" /\ pc # "success") => pc = "timer"
        /\ pc = "success" =>
              \/ pc' = "success" /\ total_success' = total_success
              \/ pc' = "attempt" /\ total_success' \in Int
        /\ (pc' = "attempt" /\ pc # "attempt") => pc = "success"
        /\ pc = "attempt" =>
              \/ pc' = "attempt" /\ data' = data
              \/ /\ pc' = "select"
                 /\ total_attempt' \in Int
                 /\ Len(data') = Len(data) + 1
                 /\ data'[Len(data')].Task = selected_task
                 /\ data'[Len(data')].TotalSuccess = total_success
                 /\ data'[Len(data')].TotalAttempt = total_attempt'
                 /\ data'[Len(data')].SuccessRate
                        = IF total_attempt' > 0
                          THEN TrueDiv(total_success, total_attempt')
                          ELSE ZeroRate
                 /\ data'[Len(data')].TaskDuration = task_duration_seconds
              \/ pc' = "crashed" /\ exc' = "OverflowError" /\ data' = data
        /\ (pc' = "select" /\ pc # "select") => pc \in {"filename", "attempt"}
        /\ data' # data => (pc = "attempt" /\ pc' = "select") ]_vars

\* C16 witness: a record has just been appended for the task selected, after
\* its timer and both prompts, and the next selection is about to start.
C16_Witness ==
    /\ pc = "select"
    /\ rejected = 0
    /\ Len(data) = 1
    /\ data[1].Task = selected_task
    /\ data[1].TotalSuccess = total_success
    /\ data[1].TotalAttempt = total_attempt
    /\ out = ""

\* C17: computing the success rate raises no division error for any pair
\* of integers the operator can enter: no run is ended by an exception of
\* the division, an attempt count <= 0 gives the rate 0, and the record is
\* appended whatever the pair.
C17_RateNeverRaises ==
    /\ exc \notin {"ZeroDivisionError", "OverflowError"}
    /\ \A i \in 1..Len(data) :
          data[i].TotalAttempt <= 0 => data[i].SuccessRate.num = 0

\* C18: if the operator eventually enters a valid line at every prompt and
\* eventually the exit word, the program attempts the final write once and
\* then terminates: a run stops only after the write was attempted, and
\* until then a step is always possible; conversely the final write is
\* reached only after the end signal.
C18_StopsOnlyAfterTheWrite ==
    /\ (pc = "done" /\ write_result # None) \/ ENABLED Next
    /\ pc \in {"write", "done"} => IsExitLine(line)
    /\ pc = "done" => ~ENABLED Next

=============================================================================
